---- MODULE Spec2Model ----
(***************************************************************************)
(* Model of app.py (GSD-330: BRETCON): the upload handler and the          *)
(* transformation pipeline process_dataframe (drop column A, detect and    *)
(* format date columns, detect and convert balance columns), the two cell  *)
(* parsers parse_date_value and to_numeric, and get_csv_bytes.             *)
(*                                                                         *)
(* Python strings are sequences of one-character strings.  A cell is a     *)
(* record: [t |-> "null"] (NaN / missing), [t |-> "str", s |-> chars],     *)
(* [t |-> "int", n |-> i], [t |-> "float", neg, h] (a float with at most   *)
(* two fractional digits, h in hundredths), and after the numeric pass     *)
(* [t |-> "num", neg, h] (a Float64 value rounded to hundredths),          *)
(* [t |-> "inf", neg] (an infinite Float64 value) or [t |-> "NA"].         *)
(* Characters are those of Latin-1 (U+0000 to U+00FF).                     *)
(***************************************************************************)
EXTENDS Integers, Sequences, FiniteSets, TLC

\* ---------------------------------------------------------------------
\* Python string primitives
\* ---------------------------------------------------------------------

Digits == <<"0", "1", "2", "3", "4", "5", "6", "7", "8", "9">>

IsDigit(c) == \E i \in 1..10 : Digits[i] = c

DigitVal(c) == (CHOOSE i \in 1..10 : Digits[i] = c) - 1

IsDigits(s) == \A i \in 1..Len(s) : IsDigit(s[i])

RECURSIVE DigitsVal(_)
DigitsVal(s) ==
    IF s = <<>> THEN 0
    ELSE 10 * DigitsVal(SubSeq(s, 1, Len(s) - 1)) + DigitVal(s[Len(s)])

RECURSIVE NatToStr(_)
NatToStr(n) ==
    IF n < 10 THEN <<Digits[n + 1]>>
    ELSE NatToStr(n \div 10) \o <<Digits[(n % 10) + 1]>>

\* str(n) for a Python int
IntToStr(n) == IF n < 0 THEN <<"-">> \o NatToStr(0 - n) ELSE NatToStr(n)

\* "%02d" % n
Pad2(n) == IF n < 10 THEN <<"0">> \o NatToStr(n) ELSE NatToStr(n)

\* the cased characters of Latin-1 that str.lower() changes, and what it
\* changes them to; string literals hold no character above U+00FF
UpperCase == <<"A", "B", "C", "D", "E", "F", "G", "H", "I", "J", "K", "L", "M",
               "N", "O", "P", "Q", "R", "S", "T", "U", "V", "W", "X", "Y", "Z",
               "À", "Á", "Â", "Ã", "Ä", "Å", "Æ", "Ç", "È", "É", "Ê", "Ë", "Ì",
               "Í", "Î", "Ï", "Ð", "Ñ", "Ò", "Ó", "Ô", "Õ", "Ö", "Ø", "Ù", "Ú",
               "Û", "Ü", "Ý", "Þ">>

LowerCase == <<"a", "b", "c", "d", "e", "f", "g", "h", "i", "j", "k", "l", "m",
               "n", "o", "p", "q", "r", "s", "t", "u", "v", "w", "x", "y", "z",
               "à", "á", "â", "ã", "ä", "å", "æ", "ç", "è", "é", "ê", "ë", "ì",
               "í", "î", "ï", "ð", "ñ", "ò", "ó", "ô", "õ", "ö", "ø", "ù", "ú",
               "û", "ü", "ý", "þ">>

LowerChar(c) ==
    IF \E i \in 1..Len(UpperCase) : UpperCase[i] = c
    THEN LowerCase[CHOOSE i \in 1..Len(UpperCase) : UpperCase[i] = c]
    ELSE c

\* str.lower()
Lower(s) == [i \in 1..Len(s) |-> LowerChar(s[i])]

\* sub in s
Contains(sub, s) ==
    \E i \in 1..(Len(s) - Len(sub) + 1) : SubSeq(s, i, i + Len(sub) - 1) = sub

\* s.replace(ch, "")
Remove(s, ch) == SelectSeq(s, LAMBDA c : c # ch)

\* the characters of Latin-1 that str.isspace() holds for: space, tab, line
\* feed, carriage return, form feed, vertical tab, the separators
\* 0x1c-0x1f, next line (0x85) and no-break space (0xa0)
Whitespace == {" ", "\t", "\n", "\r", "\f", "", "", "", "", "", "", " "}

\* what float() strips from the ends of its argument: the whitespace of the
\* C locale (space, \t, \n, \v, \f, \r) and the whitespace above U+007F,
\* which float() first replaces by spaces; not the separators 0x1c-0x1f
FloatWhitespace == {" ", "\t", "\n", "\r", "\f", "", "", " "}

\* s.lstrip(chars), s.rstrip(chars), s.strip(chars)
RECURSIVE LStripChars(_, _)
LStripChars(s, chars) ==
    IF s # <<>> /\ Head(s) \in chars THEN LStripChars(Tail(s), chars) ELSE s

RECURSIVE RStripChars(_, _)
RStripChars(s, chars) ==
    IF s # <<>> /\ s[Len(s)] \in chars
    THEN RStripChars(SubSeq(s, 1, Len(s) - 1), chars)
    ELSE s

StripChars(s, chars) == LStripChars(RStripChars(s, chars), chars)

\* s.lstrip(), s.rstrip(), s.strip()
LStrip(s) == LStripChars(s, Whitespace)

RStrip(s) == RStripChars(s, Whitespace)

Strip(s) == StripChars(s, Whitespace)

\* s.split(sep) for a one-character separator
RECURSIVE Split(_, _)
Split(s, sep) ==
    IF \A i \in 1..Len(s) : s[i] # sep THEN <<s>>
    ELSE LET k == CHOOSE i \in 1..Len(s) :
                      s[i] = sep /\ \A j \in 1..(i - 1) : s[j] # sep
         IN  <<SubSeq(s, 1, k - 1)>> \o Split(SubSeq(s, k + 1, Len(s)), sep)

\* ---------------------------------------------------------------------
\* Cells
\* ---------------------------------------------------------------------

NullCell == [t |-> "null"]

StrCell(s) == [t |-> "str", s |-> s]

IntCell(n) == [t |-> "int", n |-> n]

FloatCell(neg, h) == [t |-> "float", neg |-> neg, h |-> h]

NA == [t |-> "NA"]

Num(neg, h) == [t |-> "num", neg |-> neg, h |-> h]

\* pd.isna(x) / pd.notna(x) for a scalar
isna(x) == x.t \in {"null", "NA", "NaT"}

\* repr of a float with at most two fractional digits: the shortest
\* decimal that round-trips, which keeps at least one fractional digit
FloatToStr(neg, h) ==
    (IF neg THEN <<"-">> ELSE <<>>) \o NatToStr(h \div 100) \o <<".">> \o
    (IF h % 10 = 0 THEN <<Digits[((h % 100) \div 10) + 1]>> ELSE Pad2(h % 100))

\* str(x) for a cell value
str(x) ==
    CASE x.t = "str" -> x.s
      [] x.t = "int" -> IntToStr(x.n)
      [] x.t = "float" -> FloatToStr(x.neg, x.h)
      [] x.t = "null" -> <<"n", "a", "n">>

\* ---------------------------------------------------------------------
\* parse_date_value
\* ---------------------------------------------------------------------

NaT == [t |-> "NaT"]

Date(y, m, d) == [t |-> "date", y |-> y, m |-> m, d |-> d]

IsLeap(y) == (y % 4 = 0 /\ y % 100 # 0) \/ y % 400 = 0

DaysInMonth(y, m) ==
    IF m = 2 THEN (IF IsLeap(y) THEN 29 ELSE 28)
    ELSE IF m \in {4, 6, 9, 11} THEN 30 ELSE 31

\* datetime.date(y, m, d) does not raise ValueError
ValidDate(y, m, d) ==
    /\ y \in 1..9999
    /\ m \in 1..12
    /\ d \in 1..DaysInMonth(y, m)

\* the regular expressions _strptime builds for the directives:
\* %d is 3[0-1]|[1-2]\d|0[1-9]|[1-9]| [1-9], %m is 1[0-2]|0[1-9]|[1-9],
\* %Y is \d\d\d\d
MatchDirective(dir, f) ==
    CASE dir = "d" ->
            \/ Len(f) = 2 /\ IsDigits(f) /\ DigitsVal(f) \in 1..31
            \/ Len(f) = 1 /\ IsDigits(f) /\ DigitsVal(f) \in 1..9
            \/ Len(f) = 2 /\ f[1] = " " /\ IsDigit(f[2]) /\ DigitVal(f[2]) \in 1..9
      [] dir = "m" ->
            \/ Len(f) = 2 /\ IsDigits(f) /\ DigitsVal(f) \in 1..12
            \/ Len(f) = 1 /\ IsDigits(f) /\ DigitsVal(f) \in 1..9
      [] dir = "Y" -> Len(f) = 4 /\ IsDigits(f)

FieldVal(f) == DigitsVal(Remove(f, " "))

Fmt(a, b, c, sep) == [dirs |-> <<a, b, c>>, sep |-> sep]

\* fmts with %m/%d/%Y tried before %d/%m/%Y
fmts_month_first ==
    <<Fmt("m", "d", "Y", "/"), Fmt("d", "m", "Y", "-"), Fmt("Y", "m", "d", "-"),
      Fmt("d", "m", "Y", "/"), Fmt("Y", "m", "d", "/"), Fmt("d", "m", "Y", ".")>>

\* fmts = ("%d/%m/%Y", "%d-%m-%Y", "%Y-%m-%d", "%m/%d/%Y", "%Y/%m/%d", "%d.%m.%Y")
fmts == <<Fmt("d", "m", "Y", "/"), Fmt("d", "m", "Y", "-"), Fmt("Y", "m", "d", "-"),
          Fmt("m", "d", "Y", "/"), Fmt("Y", "m", "d", "/"), Fmt("d", "m", "Y", ".")>>

\* datetime.strptime(s, fmt).date(); NaT stands for the ValueError
strptime(s, fmt) ==
    LET fs == Split(s, fmt.sep)
    IN  IF Len(fs) # 3 THEN NaT
        ELSE IF \E i \in 1..3 : ~MatchDirective(fmt.dirs[i], fs[i]) THEN NaT
        ELSE LET val(dir) == FieldVal(fs[CHOOSE i \in 1..3 : fmt.dirs[i] = dir])
             IN  IF ValidDate(val("Y"), val("m"), val("d"))
                 THEN Date(val("Y"), val("m"), val("d"))
                 ELSE NaT

\* a delimited date a?b?y read with dayfirst=True: day-first when that is
\* a calendar date, month-first when only that is one
DayFirst(y, a, b) ==
    IF ValidDate(y, b, a) THEN Date(y, b, a)
    ELSE IF ValidDate(y, a, b) THEN Date(y, a, b)
    ELSE NaT

\* what the code does not control in pd.to_datetime, where the answer
\* depends on the pandas installed and on the clock:
\*   pivot       the first two-digit year read as 19yy: 69 where the year
\*               is read by a %y directive, the year of the clock less 1950
\*               where dateutil places it within 50 years of the clock
\*   year_first  the reading of YYYY?a?b when a and b can both be a month:
\*               "ymd" (the ISO 8601 reading) or "ydm" (dateutil with
\*               dayfirst=True)
\*   wide        whether a date outside the years a nanosecond Timestamp
\*               holds is kept (a coarser resolution) or is NaT
Env(pivot, year_first, wide) ==
    [pivot |-> pivot, year_first |-> year_first, wide |-> wide]

Pivots == {69, 76}

YearFirstReadings == {"ymd", "ydm"}

Envs == {Env(p, r, w) : p \in Pivots, r \in YearFirstReadings, w \in BOOLEAN}

\* the string is outside the grammar written out below: the model gives no
\* value for it
Unmodelled == [t |-> "unmodelled"]

\* the names the parser reads as a month, in lower case
MonthNames ==
    <<{<<"j", "a", "n">>, <<"j", "a", "n", "u", "a", "r", "y">>},
      {<<"f", "e", "b">>, <<"f", "e", "b", "r", "u", "a", "r", "y">>},
      {<<"m", "a", "r">>, <<"m", "a", "r", "c", "h">>},
      {<<"a", "p", "r">>, <<"a", "p", "r", "i", "l">>},
      {<<"m", "a", "y">>},
      {<<"j", "u", "n">>, <<"j", "u", "n", "e">>},
      {<<"j", "u", "l">>, <<"j", "u", "l", "y">>},
      {<<"a", "u", "g">>, <<"a", "u", "g", "u", "s", "t">>},
      {<<"s", "e", "p">>, <<"s", "e", "p", "t">>, <<"s", "e", "p", "t", "e", "m", "b", "e", "r">>},
      {<<"o", "c", "t">>, <<"o", "c", "t", "o", "b", "e", "r">>},
      {<<"n", "o", "v">>, <<"n", "o", "v", "e", "m", "b", "e", "r">>},
      {<<"d", "e", "c">>, <<"d", "e", "c", "e", "m", "b", "e", "r">>}>>

MonthOf(w) ==
    IF \E m \in 1..12 : Lower(w) \in MonthNames[m]
    THEN CHOOSE m \in 1..12 : Lower(w) \in MonthNames[m]
    ELSE 0

\* month names, weekday names and the words for the current time: a string
\* with no digit and none of these is not a date
DateWords ==
    {<<"j", "a", "n">>, <<"f", "e", "b">>, <<"m", "a", "r">>, <<"a", "p", "r">>,
     <<"m", "a", "y">>, <<"j", "u", "n">>, <<"j", "u", "l">>, <<"a", "u", "g">>,
     <<"s", "e", "p">>, <<"o", "c", "t">>, <<"n", "o", "v">>, <<"d", "e", "c">>,
     <<"m", "o", "n">>, <<"t", "u", "e">>, <<"w", "e", "d">>, <<"t", "h", "u">>,
     <<"f", "r", "i">>, <<"s", "a", "t">>, <<"s", "u", "n">>, <<"n", "o", "w">>,
     <<"t", "o", "d", "a", "y">>}

HasDateWord(s) == \E w \in DateWords : Contains(w, Lower(s))

HasDigit(s) == \E k \in 1..Len(s) : IsDigit(s[k])

Num1or2(f) == Len(f) \in 1..2 /\ IsDigits(f)

\* a two-digit year
Century(yy, pivot) == IF yy >= pivot THEN 1900 + yy ELSE 2000 + yy

\* a date as a Timestamp: the nanosecond Timestamp holds 1677-09-21 to
\* 2262-04-11; outside it the date is kept or NaT with env.wide, and in the
\* two years of the limits the answer also depends on the time of day
Bounded(d, env) ==
    IF d = NaT THEN NaT
    ELSE IF d.y \in 1678..2261 \/ env.wide THEN d
    ELSE IF d.y \in {1677, 2262} THEN Unmodelled
    ELSE NaT

\* HH:MM, HH:MM:SS or HH:MM:SS.ffffff, with or without the suffix Z of UTC
TimeOfDay(t) ==
    LET u == IF t # <<>> /\ t[Len(t)] = "Z" THEN SubSeq(t, 1, Len(t) - 1) ELSE t
        c == Split(u, ":")
        sec == Split(c[3], ".")
    IN  /\ Len(c) \in 2..3
        /\ Len(c[1]) = 2 /\ IsDigits(c[1]) /\ DigitsVal(c[1]) < 24
        /\ Len(c[2]) = 2 /\ IsDigits(c[2]) /\ DigitsVal(c[2]) < 60
        /\ Len(c) = 3 =>
              /\ Len(sec) \in 1..2
              /\ Len(sec[1]) = 2 /\ IsDigits(sec[1]) /\ DigitsVal(sec[1]) < 60
              /\ Len(sec) = 2 => Len(sec[2]) \in 1..6 /\ IsDigits(sec[2])

\* where the time of day starts: the position of the last " " or "T" before
\* the first ":", 0 if there is no ":" or no such character
TimeAt(s) ==
    LET colon == CHOOSE k \in 1..Len(s) : s[k] = ":" /\ \A j \in 1..(k - 1) : s[j] # ":"
        seps == {k \in 1..Len(s) : k < colon /\ s[k] \in {" ", "T"}}
    IN  IF ~Contains(<<":">>, s) THEN 0
        ELSE IF seps = {} THEN 0
        ELSE CHOOSE k \in seps : \A j \in seps : j <= k

\* YYYY?a?b.  The ISO 8601 reading is year, month, day; dateutil with
\* dayfirst=True reads year, day, month whenever b can be a month.  The two
\* differ when a and b can both be a month, and env.year_first says which
\* one the library takes.
YearFirst(y, a, b, env) ==
    IF a \in 1..12 /\ b \in 1..12 /\ a # b /\ y >= 1
    THEN (IF env.year_first = "ymd" THEN Date(y, a, b) ELSE Date(y, b, a))
    ELSE IF b \in 1..12 /\ a > 12
    THEN (IF ValidDate(y, b, a) THEN Date(y, b, a) ELSE NaT)
    ELSE IF ValidDate(y, a, b) THEN Date(y, a, b)
    ELSE NaT

\* eight digits YYYYMMDD
Compact(s, env) ==
    IF Len(s) = 8 /\ IsDigits(s)
          /\ ValidDate(DigitsVal(SubSeq(s, 1, 4)), DigitsVal(SubSeq(s, 5, 6)),
                       DigitsVal(SubSeq(s, 7, 8)))
    THEN Bounded(Date(DigitsVal(SubSeq(s, 1, 4)), DigitsVal(SubSeq(s, 5, 6)),
                      DigitsVal(SubSeq(s, 7, 8))), env)
    ELSE Unmodelled

\* three fields of digits with the same one of / - . between them:
\* a?b?YYYY, a?b?YY and YYYY?a?b
Delimited(s, env) ==
    LET sep == IF Contains(<<"/">>, s) THEN "/"
               ELSE IF Contains(<<"-">>, s) THEN "-" ELSE "."
        f == Split(s, sep)
    IN  IF Len(f) # 3 \/ \E k \in 1..3 : ~IsDigits(f[k]) THEN Unmodelled
        ELSE IF Num1or2(f[1]) /\ Num1or2(f[2]) /\ Len(f[3]) = 4
        THEN Bounded(DayFirst(DigitsVal(f[3]), DigitsVal(f[1]), DigitsVal(f[2])), env)
        ELSE IF /\ Num1or2(f[1]) /\ Num1or2(f[2]) /\ Len(f[3]) = 2
                /\ sep \in {"/", "-"}
                /\ DigitsVal(f[1]) \in 1..31 /\ DigitsVal(f[2]) >= 1
        THEN Bounded(DayFirst(Century(DigitsVal(f[3]), env.pivot),
                              DigitsVal(f[1]), DigitsVal(f[2])), env)
        ELSE IF /\ Len(f[1]) = 4 /\ Num1or2(f[2]) /\ Num1or2(f[3])
                /\ sep \in {"/", "-"}
        THEN Bounded(YearFirst(DigitsVal(f[1]), DigitsVal(f[2]), DigitsVal(f[3]), env),
                     env)
        ELSE Unmodelled

\* a date with the month by name: "16 Sep 2025", "16-Sep-2025",
\* "Sep 16 2025", "Sep 16, 2025"
MonthName(s, env) ==
    LET sep == IF Contains(<<" ">>, s) THEN " " ELSE "-"
        f == Split(s, sep)
        dayfirst == MonthOf(f[2]) # 0
        dd == IF dayfirst THEN f[1]
              ELSE IF sep = " " /\ f[2] # <<>> /\ f[2][Len(f[2])] = ","
                   THEN SubSeq(f[2], 1, Len(f[2]) - 1)
                   ELSE f[2]
        mm == IF dayfirst THEN f[2] ELSE f[1]
    IN  IF /\ Len(f) = 3
           /\ MonthOf(mm) # 0 /\ (dayfirst \/ sep = " ")
           /\ Num1or2(dd) /\ DigitsVal(dd) \in 1..31
           /\ Len(f[3]) = 4 /\ IsDigits(f[3])
        THEN (IF ValidDate(DigitsVal(f[3]), MonthOf(mm), DigitsVal(dd))
              THEN Bounded(Date(DigitsVal(f[3]), MonthOf(mm), DigitsVal(dd)), env)
              ELSE NaT)
        ELSE Unmodelled

\* a date without its day, which is then the first of the month: "2025"
\* (and the first of January), "2025-09", "09/2025", "09-2025",
\* "September 2025", "Sep-2025"
Partial(s, env) ==
    LET sep == IF Contains(<<"/">>, s) THEN "/"
               ELSE IF Contains(<<"-">>, s) THEN "-" ELSE " "
        f == Split(s, sep)
        year(g) == Len(g) = 4 /\ IsDigits(g) /\ DigitsVal(g) >= 1
        month(g) == Len(g) = 2 /\ IsDigits(g) /\ DigitsVal(g) \in 1..12
    IN  IF year(s) THEN Bounded(Date(DigitsVal(s), 1, 1), env)
        ELSE IF Len(f) # 2 THEN Unmodelled
        ELSE IF sep = "-" /\ year(f[1]) /\ month(f[2])
        THEN Bounded(Date(DigitsVal(f[1]), DigitsVal(f[2]), 1), env)
        ELSE IF sep \in {"/", "-"} /\ month(f[1]) /\ year(f[2])
        THEN Bounded(Date(DigitsVal(f[2]), DigitsVal(f[1]), 1), env)
        ELSE IF sep \in {" ", "-"} /\ MonthOf(f[1]) # 0 /\ year(f[2])
        THEN Bounded(Date(DigitsVal(f[2]), MonthOf(f[1]), 1), env)
        ELSE Unmodelled

\* pd.to_datetime(s, dayfirst=True, errors="coerce") followed by .date().
\* The empty string and text with neither a digit nor a date word are NaT.
\* A date of one of the shapes above, alone or followed by a time of day
\* (after a space, or after "T" when the date is YYYY-a-b), has the value
\* given there; the time of day is dropped by .date().  For any other
\* string the model gives no value.
to_datetime_dayfirst(s, env) ==
    LET k == TimeAt(s)
        d == IF k = 0 THEN s ELSE SubSeq(s, 1, k - 1)
        t == IF k = 0 THEN <<>> ELSE SubSeq(s, k + 1, Len(s))
        iso == Len(Split(d, "-")) = 3 /\ Len(Split(d, "-")[1]) = 4
    IN  IF s = <<>> THEN NaT
        ELSE IF ~HasDigit(s) /\ ~HasDateWord(s) THEN NaT
        ELSE IF Contains(<<":">>, s) /\ (k = 0 \/ ~TimeOfDay(t)) THEN Unmodelled
        ELSE IF k # 0 /\ s[k] = "T" /\ ~iso THEN Unmodelled
        ELSE IF Delimited(d, env) # Unmodelled THEN Delimited(d, env)
        ELSE IF MonthName(d, env) # Unmodelled THEN MonthName(d, env)
        ELSE IF k # 0 THEN Unmodelled
        ELSE IF Compact(d, env) # Unmodelled THEN Compact(d, env)
        ELSE Partial(d, env)

\* the index of the first format of fmts that strptime accepts, 0 if none
\* (the for loop of parse_date_value)
FirstFormat(s) ==
    IF \A i \in 1..Len(fmts) : strptime(s, fmts[i]) = NaT THEN 0
    ELSE CHOOSE i \in 1..Len(fmts) :
            /\ strptime(s, fmts[i]) # NaT
            /\ \A j \in 1..(i - 1) : strptime(s, fmts[j]) = NaT

\* parse_date_value(val), in the environment env of the fallback
parse_date_value(val, env) ==
    IF isna(val) THEN NaT
    ELSE LET s == Strip(str(val))
             k == FirstFormat(s)
         IN  IF k # 0 THEN strptime(s, fmts[k]) ELSE to_datetime_dayfirst(s, env)

\* d.strftime("%d/%m/%Y"): the C library's strftime writes %Y without
\* leading zeros (glibc), so a year below 1000 has fewer than four digits
strftime(d) == Pad2(d.d) \o <<"/">> \o Pad2(d.m) \o <<"/">> \o NatToStr(d.y)

\* lambda d: d.strftime("%d/%m/%Y") if pd.notna(d) else ""
strftime_or_empty(d) ==
    IF d = Unmodelled THEN Unmodelled
    ELSE IF isna(d) THEN StrCell(<<>>)
    ELSE StrCell(strftime(d))

\* ---------------------------------------------------------------------
\* to_numeric
\* ---------------------------------------------------------------------

RECURSIVE Pow10(_)
Pow10(k) == IF k = 0 THEN 1 ELSE 10 * Pow10(k - 1)

\* a finite Python float whose decimal expansion is m / 10^k, sign kept
\* apart (float("-0") is -0.0)
PyFloat(neg, m, k) == [t |-> "pyfloat", neg |-> neg, m |-> m, k |-> k]

\* float("inf"), float("-inf")
PyInf(neg) == [t |-> "pyinf", neg |-> neg]

\* float("nan")
PyNaN == [t |-> "pynan"]

\* digitpart ::= digit (["_"] digit)*
DigitPart(p) ==
    /\ p # <<>>
    /\ \A k \in 1..Len(p) : IsDigit(p[k]) \/ p[k] = "_"
    /\ IsDigit(p[1]) /\ IsDigit(p[Len(p)])
    /\ \A k \in 1..(Len(p) - 1) : ~(p[k] = "_" /\ p[k + 1] = "_")

\* the position of the first "e" or "E" of s, 0 if there is none
ExponentAt(s) ==
    IF \A k \in 1..Len(s) : s[k] \notin {"e", "E"} THEN 0
    ELSE CHOOSE k \in 1..Len(s) :
            /\ s[k] \in {"e", "E"}
            /\ \A j \in 1..(k - 1) : s[j] \notin {"e", "E"}

RECURSIVE StripZeros(_)
StripZeros(s) == IF s # <<>> /\ Head(s) = "0" THEN StripZeros(Tail(s)) ELSE s

\* float(s); NA stands for the ValueError.  The grammar is the one of the
\* language reference: surrounding whitespace (FloatWhitespace), a sign,
\* "inf", "infinity" or "nan" in any case, or digits with an optional point,
\* single underscores between digits and an optional exponent.  A value of 1e310 or more is
\* inf; finite values are kept exactly, so their digits must fit the
\* integers of the checker.
float(s0) ==
    LET s == StripChars(s0, FloatWhitespace)
        signed == s # <<>> /\ s[1] \in {"+", "-"}
        neg == signed /\ s[1] = "-"
        body == IF signed THEN Tail(s) ELSE s
        ea == ExponentAt(body)
        mant == IF ea = 0 THEN body ELSE SubSeq(body, 1, ea - 1)
        exp == IF ea = 0 THEN <<>> ELSE SubSeq(body, ea + 1, Len(body))
        esigned == exp # <<>> /\ exp[1] \in {"+", "-"}
        ebody == IF esigned THEN Tail(exp) ELSE exp
        edigits == StripZeros(Remove(ebody, "_"))
        parts == Split(mant, ".")
        int == parts[1]
        frac == IF Len(parts) = 2 THEN parts[2] ELSE <<>>
        wellformed ==
            /\ Len(parts) \in 1..2
            /\ int = <<>> \/ DigitPart(int)
            /\ frac = <<>> \/ DigitPart(frac)
            /\ Len(int) + Len(frac) >= 1
            /\ ea # 0 => DigitPart(ebody)
        digits == StripZeros(Remove(int, "_") \o Remove(frac, "_"))
        fl == Len(Remove(frac, "_"))
    IN  IF Lower(body) \in {<<"i", "n", "f">>,
                            <<"i", "n", "f", "i", "n", "i", "t", "y">>}
        THEN PyInf(neg)
        ELSE IF Lower(body) = <<"n", "a", "n">> THEN PyNaN
        ELSE IF ~wellformed THEN NA
        ELSE IF digits = <<>> THEN PyFloat(neg, 0, 0)
        ELSE IF Len(edigits) > 4
        THEN (IF esigned /\ exp[1] = "-" THEN PyFloat(neg, 0, 0) ELSE PyInf(neg))
        ELSE LET e == IF esigned /\ exp[1] = "-" THEN 0 - DigitsVal(edigits)
                      ELSE DigitsVal(edigits)
             IN  IF Len(digits) + e - fl > 309 THEN PyInf(neg)
                 ELSE IF Len(digits) + e - fl < 0 - 330 THEN PyFloat(neg, 0, 0)
                 ELSE IF e >= fl
                 THEN PyFloat(neg, DigitsVal(digits) * Pow10(e - fl), 0)
                 ELSE PyFloat(neg, DigitsVal(digits), fl - e)

to_numeric(x) ==
    IF isna(x) \/ Strip(str(x)) = <<>> THEN NA
    ELSE LET s0 == Remove(Remove(str(x), ","), " ")
             s == IF s0 # <<>> /\ s0[1] = "(" /\ s0[Len(s0)] = ")"
                  THEN <<"-">> \o SubSeq(s0, 2, Len(s0) - 1)
                  ELSE s0
         IN  \* float(s); on ValueError float(pd.to_numeric(s, errors="coerce")):
             \* the parser of pandas reads a sign, digits with a point, an
             \* exponent, "inf", "infinity" or "nan" between ASCII whitespace,
             \* all of which float() accepts, so it coerces s to nan, which
             \* astype("Float64") holds as a missing value
             IF float(s) = NA THEN PyNaN ELSE float(s)

\* Series.round(2) on one Float64 value: rint(x * 100) / 100.  The set of
\* hundredths the rounding can give: one value, except at a decimal tie
\* (third digit 5, nothing after), where the outcome depends on the binary
\* value of x unless x is a binary fraction (then rint rounds half to even)
RoundOutcomes(f) ==
    IF f.k <= 2 THEN {f.m * Pow10(2 - f.k)}
    ELSE IF f.k > 11 THEN {0}
    ELSE LET unit == Pow10(f.k - 2)
             q == f.m \div unit
             r == f.m % unit
         IN  IF 2 * r < unit THEN {q}
             ELSE IF 2 * r > unit THEN {q + 1}
             ELSE IF (2 * q + 1) % 25 = 0
                  THEN {IF q % 2 = 0 THEN q ELSE q + 1}
                  ELSE {q, q + 1}

\* a Float64 value that is infinite
Inf(neg) == [t |-> "inf", neg |-> neg]

\* astype("Float64") and round(2) of one to_numeric result: pd.NA and nan
\* are missing values, an infinite value stays infinite; up picks the
\* outcome at an inexact tie
round2(v, up) ==
    IF v \in {NA, PyNaN} THEN NA
    ELSE IF v.t = "pyinf" THEN Inf(v.neg)
    ELSE LET hs == RoundOutcomes(v)
         IN  Num(v.neg, IF up THEN CHOOSE h \in hs : \A g \in hs : g <= h
                                ELSE CHOOSE h \in hs : \A g \in hs : h <= g)

\* ---------------------------------------------------------------------
\* get_csv_bytes
\* ---------------------------------------------------------------------

\* "%.2f" % x
Fixed2(neg, h) ==
    (IF neg THEN <<"-">> ELSE <<>>) \o NatToStr(h \div 100) \o <<".">> \o Pad2(h % 100)

\* the text to_csv writes for one cell, before quoting: float_format for
\* float values ("%.2f" % inf is "inf"), na_rep "" for missing ones
CsvText(x) ==
    CASE x.t \in {"null", "NA"} -> <<>>
      [] x.t = "str" -> x.s
      [] x.t = "int" -> IntToStr(x.n)
      [] x.t \in {"float", "num"} -> Fixed2(x.neg, x.h)
      [] x.t = "inf" -> (IF x.neg THEN <<"-">> ELSE <<>>) \o <<"i", "n", "f">>

\* the quote character written twice (doublequote=True)
RECURSIVE DoubleQuotes(_)
DoubleQuotes(s) ==
    IF s = <<>> THEN <<>>
    ELSE (IF Head(s) = "\"" THEN <<"\"", "\"">> ELSE <<Head(s)>>)
         \o DoubleQuotes(Tail(s))

\* csv.writer with QUOTE_MINIMAL, as to_csv sets it up (delimiter ",",
\* quotechar '"', lineterminator os.linesep, which is "\n"): a field holding
\* the delimiter, the quote character or a character of the line
\* terminator is quoted, and so is an empty field that is alone on its line
CsvField(s, alone) ==
    IF \/ \E k \in 1..Len(s) : s[k] \in {",", "\"", "\n"}
       \/ (alone /\ s = <<>>)
    THEN <<"\"">> \o DoubleQuotes(s) \o <<"\"">>
    ELSE s

RECURSIVE CsvJoin(_)
CsvJoin(fields) ==
    IF Len(fields) = 0 THEN <<>>
    ELSE IF Len(fields) = 1 THEN fields[1]
    ELSE fields[1] \o <<",">> \o CsvJoin(Tail(fields))

CsvLine(texts) ==
    CsvJoin([i \in 1..Len(texts) |-> CsvField(texts[i], Len(texts) = 1)])

\* ---------------------------------------------------------------------
\* DataFrames
\* ---------------------------------------------------------------------

\* a DataFrame: the column labels, the number of rows, one sequence of
\* cells per column
DataFrame(columns, nrows, data) ==
    [t |-> "df", columns |-> columns, nrows |-> nrows, data |-> data]

NoFrame == [t |-> "none"]

\* df.shape[1]
ncols(df) == Len(df.columns)

\* df.empty
empty(df) == df.nrows = 0 \/ ncols(df) = 0

\* df[col]: the cells of the column labelled col
Column(df, col) == df.data[CHOOSE j \in 1..ncols(df) : df.columns[j] = col]

\* df[col] = cells
SetColumn(df, col, cells) ==
    [df EXCEPT !.data = [j \in 1..ncols(df) |->
                            IF df.columns[j] = col THEN cells ELSE df.data[j]]]

\* drop_first with the last column removed instead of the first
drop_last(df) ==
    DataFrame(SubSeq(df.columns, 1, ncols(df) - 1), df.nrows,
              SubSeq(df.data, 1, ncols(df) - 1))

\* df.drop(df.columns[0], axis=1).reset_index(drop=True): drop removes by
\* label, the rows keep their order
drop_first(df) ==
    LET keep == {j \in 1..ncols(df) : df.columns[j] # df.columns[1]}
        pos(i) == CHOOSE j \in keep : Cardinality({k \in keep : k < j}) = i - 1
    IN  DataFrame([i \in 1..Cardinality(keep) |-> df.columns[pos(i)]],
                  df.nrows,
                  [i \in 1..Cardinality(keep) |-> df.data[pos(i)]])

\* df.columns = [str(c) for c in df.columns]
stringify_columns(df) ==
    [df EXCEPT !.columns = [j \in 1..ncols(df) |-> str(df.columns[j])]]

\* ---------------------------------------------------------------------
\* Role detection
\* ---------------------------------------------------------------------

\* "date" in c.lower()  (line 61)
is_date_col(c) == Contains(<<"d", "a", "t", "e">>, Lower(c))

\* any(k in c.lower() for k in ("doc", "invoice")) and "date" in c.lower()
\* (line 64)
is_date_col_heuristic(c) ==
    /\ \/ Contains(<<"d", "o", "c">>, Lower(c))
       \/ Contains(<<"i", "n", "v", "o", "i", "c", "e">>, Lower(c))
    /\ Contains(<<"d", "a", "t", "e">>, Lower(c))

\* lines 61-64
find_date_cols(columns) ==
    LET date_cols0 == SelectSeq(columns, is_date_col)
    IN  IF date_cols0 = <<>> THEN SelectSeq(columns, is_date_col_heuristic)
        ELSE date_cols0

\* balance_keywords without "credit"
balance_keywords_short ==
    {<<"b", "a", "l", "a", "n", "c", "e">>, <<"a", "m", "o", "u", "n", "t">>,
     <<"v", "a", "l", "u", "e">>, <<"a", "m", "t">>, <<"d", "e", "b", "i", "t">>,
     <<"t", "o", "t", "a", "l">>}

\* the keyword tuple of line 73
balance_keywords ==
    {<<"b", "a", "l", "a", "n", "c", "e">>, <<"a", "m", "o", "u", "n", "t">>,
     <<"v", "a", "l", "u", "e">>, <<"a", "m", "t">>, <<"d", "e", "b", "i", "t">>,
     <<"c", "r", "e", "d", "i", "t">>, <<"t", "o", "t", "a", "l">>}

is_balance_col(c) == \E k \in balance_keywords : Contains(k, Lower(c))

\* find_balance_cols with the first column as the fallback
find_balance_cols_first(columns) ==
    LET balance_cols0 == SelectSeq(columns, is_balance_col)
    IN  IF balance_cols0 = <<>> /\ Len(columns) >= 1
        THEN <<columns[1]>>
        ELSE balance_cols0

\* lines 73-76
find_balance_cols(columns) ==
    LET balance_cols0 == SelectSeq(columns, is_balance_col)
    IN  IF balance_cols0 = <<>> /\ Len(columns) >= 1
        THEN <<columns[Len(columns)]>>
        ELSE balance_cols0

\* "date" in c.lower()  (line 145)
is_detected_date_col(c) == Contains(<<"d", "a", "t", "e">>, Lower(c))

\* detected_balance_keywords without "total"
detected_balance_keywords_short ==
    {<<"b", "a", "l", "a", "n", "c", "e">>, <<"a", "m", "o", "u", "n", "t">>,
     <<"v", "a", "l", "u", "e">>, <<"a", "m", "t">>, <<"d", "e", "b", "i", "t">>,
     <<"c", "r", "e", "d", "i", "t">>}

\* the keyword tuple of line 146
detected_balance_keywords ==
    {<<"b", "a", "l", "a", "n", "c", "e">>, <<"a", "m", "o", "u", "n", "t">>,
     <<"v", "a", "l", "u", "e">>, <<"a", "m", "t">>, <<"d", "e", "b", "i", "t">>,
     <<"c", "r", "e", "d", "i", "t">>, <<"t", "o", "t", "a", "l">>}

is_detected_balance_col(c) ==
    \E k \in detected_balance_keywords : Contains(k, Lower(c))

\* ---------------------------------------------------------------------
\* Column passes
\* ---------------------------------------------------------------------

\* format_date_column where one unparseable cell empties the whole column
format_date_column_abort(cells, env) ==
    IF \E r \in 1..Len(cells) : parse_date_value(cells[r], env) = NaT
    THEN [r \in 1..Len(cells) |-> StrCell(<<>>)]
    ELSE [r \in 1..Len(cells) |-> strftime_or_empty(parse_date_value(cells[r], env))]

\* lines 68-70: df[col].apply(parse_date_value), then strftime or ""
format_date_column(cells, env) ==
    [r \in 1..Len(cells) |-> strftime_or_empty(parse_date_value(cells[r], env))]

\* lines 96-99: df[col].apply(to_numeric).astype("Float64").round(2)
convert_balance_column(cells, ups) ==
    [r \in 1..Len(cells) |-> round2(to_numeric(cells[r]), ups[r])]

\* line 107: the lines of df.to_csv(index=False, float_format="%.2f")
get_csv_bytes(df) ==
    <<CsvLine(df.columns)>> \o
    [r \in 1..df.nrows |->
        CsvLine([j \in 1..ncols(df) |-> CsvText(df.data[j][r])])]

\* ---------------------------------------------------------------------
\* Inputs
\* ---------------------------------------------------------------------

MaxCols == 3

MaxRows == 2

NameCells ==
    <<StrCell(<<"A", "c", "m", "e">>),
      StrCell(<<"B", "e", "t", "a">>),
      NullCell,
      StrCell(<<"S", "m", "i", "t", "h", ",", " ", "J">>),
      StrCell(<<"6", "\"", " ", "p", "i", "p", "e">>),
      StrCell(<<"t", "w", "o", "\n", "l", "i", "n", "e", "s">>)>>

DateCells ==
    <<StrCell(<<"1", "5", "/", "0", "9", "/", "2", "0", "2", "5">>),
      StrCell(<<"2", "0", "2", "5", "-", "0", "9", "-", "1", "6">>),
      StrCell(<<"n", "o", "t", "-", "a", "-", "d", "a", "t", "e">>),
      StrCell(<<"0", "3", "/", "0", "4", "/", "2", "0", "2", "5">>),
      NullCell,
      StrCell(<<"1", "2", "/", "2", "5", "/", "2", "0", "2", "5">>),
      StrCell(<<>>),
      StrCell(<<"1", "6", ".", "0", "9", ".", "2", "0", "2", "5">>),
      StrCell(<<" ", "1", "5", "-", "0", "9", "-", "2", "0", "2", "5", " ">>),
      StrCell(<<"2", "0", "2", "5", "/", "0", "9", "/", "1", "6">>),
      StrCell(<<"3", "1", "/", "0", "2", "/", "2", "0", "2", "5">>),
      StrCell(<<"2", "0", "2", "5", "-", "0", "9", "-", "1", "6", " ", "0", "0", ":", "0", "0", ":", "0", "0">>),
      StrCell(<<"3", "/", "4", "/", "2", "5">>),
      StrCell(<<" ", " ">>),
      StrCell(<<"1", "5", "/", "0", "9", "/", "2", "0", "2", "5", "\t">>),
      StrCell(<<"0", "1", "/", "0", "1", "/", "0", "9", "9", "9">>),
      StrCell(<<"1", "6", " ", "S", "e", "p", " ", "2", "0", "2", "5">>),
      StrCell(<<"3", "/", "4", "/", "7", "5">>),
      StrCell(<<"2", "0", "2", "5", "-", "9", "-", "1", "6", " ", "0", "0", ":", "0", "0", ":", "0", "0">>),
      StrCell(<<"2", "0", "2", "5", "/", "0", "9", "/", "1", "1", " ", "1", "0", ":", "0", "0">>),
      StrCell(<<"\n", "0", "3", "/", "0", "4", "/", "2", "0", "2", "5">>),
      StrCell(<<" ", "1", "5", "/", "0", "9", "/", "2", "0", "2", "5">>),
      StrCell(<<"9", ".", "1", "6", ".", "0", "9", "9", "9">>),
      StrCell(<<"S", "e", "p", "t", "e", "m", "b", "e", "r", " ", "2", "0", "2", "5">>)>>

AmountCells ==
    <<StrCell(<<"1", ",", "0", "0", "0", ".", "0", "0">>),
      StrCell(<<"(", "5", "0", ".", "2", "5", ")">>),
      StrCell(<<"a", "b", "c">>),
      StrCell(<<"(", "1", "2", "3", ".", "4", "5", ")">>),
      StrCell(<<"1", ",", "2", "3", "4", ".", "5", "0">>),
      NullCell,
      StrCell(<<>>),
      StrCell(<<"1", ".", "0", "0", "5">>),
      StrCell(<<" ", " ">>),
      StrCell(<<"0", ".", "1", "2", "5">>),
      StrCell(<<"1", ".", "2", "3", "6">>),
      StrCell(<<"-", "0", ".", "0", "0", "1">>),
      StrCell(<<"1", "2", " ", "3", "4", "5">>),
      StrCell(<<"(", "-", "5", ")">>),
      StrCell(<<"-", "7">>),
      StrCell(<<".", "5">>),
      StrCell(<<"1", "e", "5">>),
      StrCell(<<"i", "n", "f">>),
      StrCell(<<"\t", "5">>),
      StrCell(<<"1", "_", "0", "0", "0">>),
      StrCell(<<"1", "E", "-", "2">>),
      StrCell(<<"n", "a", "n">>),
      StrCell(<<"-", "I", "n", "f", "i", "n", "i", "t", "y">>),
      StrCell(<<" ", "5">>),
      StrCell(<<"", "5">>),
      StrCell(<<" ">>)>>

DualCells ==
    <<StrCell(<<"2", "0", "2", "5", "0", "9", "1", "6">>),
      StrCell(<<"1", "5", "/", "0", "9", "/", "2", "0", "2", "5">>),
      StrCell(<<"a", "b", "c">>),
      NullCell,
      StrCell(<<>>),
      StrCell(<<"0", "1", "/", "0", "1", "/", "0", "9", "9", "9">>),
      StrCell(<<"3", "/", "4", "/", "7", "5">>)>>

FloatCells ==
    <<FloatCell(FALSE, 123450),
      NullCell,
      FloatCell(TRUE, 5025),
      FloatCell(FALSE, 100000),
      FloatCell(FALSE, 7)>>

IntCells ==
    <<IntCell(1000),
      IntCell(20250916),
      IntCell(0 - 5),
      IntCell(0)>>

SampleColumns ==
    <<[name |-> <<"N", "a", "m", "e">>, cells |-> NameCells],
      [name |-> <<"I", "n", "v", "o", "i", "c", "e", "D", "a", "t", "e">>, cells |-> DateCells],
      [name |-> <<"B", "a", "l", "a", "n", "c", "e">>, cells |-> AmountCells],
      [name |-> <<"R", "e", "f", "#">>, cells |-> AmountCells],
      [name |-> <<"D", "o", "c", " ", "D", "a", " ", "t", "e">>, cells |-> DateCells],
      [name |-> <<"O", "p", "e", "n", " ", "I", "t", "e", "m", "s">>, cells |-> AmountCells],
      [name |-> <<"V", "a", "l", "u", "e", " ", "D", "a", "t", "e">>, cells |-> DualCells],
      [name |-> <<"Q", "t", "y">>, cells |-> IntCells],
      [name |-> <<"A", "m", "o", "u", "n", "t">>, cells |-> FloatCells],
      [name |-> <<"T", "o", "t", "a", "l", " ", "t", "o", " ", "d", "a", "t", "e">>, cells |-> DualCells],
      [name |-> <<"C", "r", "e", "d", "i", "t">>, cells |-> AmountCells],
      [name |-> <<"D", "e", "b", "i", "t", " ", "A", "m", "t">>, cells |-> FloatCells]>>

Wrap(k, n) == ((k - 1) % n) + 1

\* the table of n columns and r rows made of the sample columns from kh on,
\* each filled with its sample cells from kc on; without a header row the labels are
\* the integer positions
SampleFrame(header, n, r, kh, kc) ==
    LET kind(j) == SampleColumns[Wrap(kh + j - 1, Len(SampleColumns))]
    IN  DataFrame([j \in 1..n |-> IF header THEN StrCell(kind(j).name)
                                            ELSE IntCell(j - 1)],
                  r,
                  [j \in 1..n |-> [i \in 1..r |->
                      kind(j).cells[Wrap(kc + i - 1, Len(kind(j).cells))]]])

\* the starting cells: as many as the longest list of sample cells
Starts == 1..Len(AmountCells)


\* ---------------------------------------------------------------------
\* State
\* ---------------------------------------------------------------------

VARIABLES
    env,                    \* the clock and the pandas behind pd.to_datetime
    entry,                  \* "upload": the handler of lines 110-160 runs;
                            \* "direct": process_dataframe is called alone
    has_header,             \* the checkbox of line 22
    df_in,                  \* the table read from the uploaded file
    pc,                     \* the position of the run
    df,                     \* the local df of process_dataframe
    date_cols,              \* line 61 / 64
    balance_cols,           \* line 73 / 76
    i,                      \* the position of the for loops of lines 67, 78
    processed_df,           \* line 139
    detected_date_cols,     \* line 145
    detected_balance_cols,  \* line 146
    shown_date_cols,        \* what line 147 writes
    shown_balance_cols,     \* what line 148 writes
    csv_bytes,              \* line 151
    error,                  \* the st.error message, or the exception raised
    val,                    \* parse_date_value: the argument
    s,                      \* parse_date_value: line 32
    fmt_i,                  \* parse_date_value: the position in fmts
    ret,                    \* parse_date_value: the value returned
    parse_pc                \* parse_date_value: the position of the call

pipeline_vars ==
    <<env, entry, has_header, df_in, pc, df, date_cols, balance_cols, i, processed_df,
      detected_date_cols, detected_balance_cols, shown_date_cols,
      shown_balance_cols, csv_bytes, error>>

parse_vars == <<val, s, fmt_i, ret, parse_pc>>

vars == <<pipeline_vars, parse_vars>>

\* what st.write shows: a list of column names, or a text
ShownList(cols) == [cols |-> cols, text |-> ""]

ShownText(text) == [cols |-> <<>>, text |-> text]

PipelineIdle ==
    /\ df = NoFrame
    /\ date_cols = <<>>
    /\ balance_cols = <<>>
    /\ i = 0
    /\ processed_df = NoFrame
    /\ detected_date_cols = <<>>
    /\ detected_balance_cols = <<>>
    /\ shown_date_cols = ShownText("")
    /\ shown_balance_cols = ShownText("")
    /\ csv_bytes = <<>>
    /\ error = ""

ParseIdle ==
    /\ val = NullCell
    /\ s = <<>>
    /\ fmt_i = 0
    /\ ret = NaT
    /\ parse_pc = "idle"

Init ==
    /\ env \in Envs
    /\ entry \in {"upload", "direct"}
    /\ has_header \in BOOLEAN
    /\ \E n \in 0..MaxCols, r \in 0..MaxRows, kh \in 1..Len(SampleColumns), kc \in Starts :
          /\ n = 0 => r = 0
          /\ df_in = SampleFrame(has_header, n, r, kh, kc)
    /\ pc = IF entry = "upload" THEN "uploaded" ELSE "process"
    /\ PipelineIdle
    /\ ParseIdle

\* ---------------------------------------------------------------------
\* The upload handler, lines 110-160
\* ---------------------------------------------------------------------

\* lines 130-131
RejectEmpty ==
    /\ pc = "uploaded"
    /\ empty(df_in)
    /\ error' = "Uploaded file is empty."
    /\ pc' = "rejected"
    /\ UNCHANGED <<env, entry, has_header, df_in, df, date_cols, balance_cols, i,
                   processed_df, detected_date_cols, detected_balance_cols,
                   shown_date_cols, shown_balance_cols, csv_bytes, parse_vars>>

\* lines 132-133
RejectColumns ==
    /\ pc = "uploaded"
    /\ ~empty(df_in)
    /\ ncols(df_in) < 2
    /\ error' = "Uploaded file must have at least 2 columns (so column A can be removed and others shift left)."
    /\ pc' = "rejected"
    /\ UNCHANGED <<env, entry, has_header, df_in, df, date_cols, balance_cols, i,
                   processed_df, detected_date_cols, detected_balance_cols,
                   shown_date_cols, shown_balance_cols, csv_bytes, parse_vars>>

\* CallProcess without the column count test of line 132
CallProcessUnchecked ==
    /\ pc = "uploaded"
    /\ ~empty(df_in)
    /\ pc' = "process"
    /\ UNCHANGED <<env, entry, has_header, df_in, df, date_cols, balance_cols, i,
                   processed_df, detected_date_cols, detected_balance_cols,
                   shown_date_cols, shown_balance_cols, csv_bytes, error, parse_vars>>

\* lines 134-139: the previews are shown and process_dataframe is called
CallProcess ==
    /\ pc = "uploaded"
    /\ ~empty(df_in)
    /\ ~(ncols(df_in) < 2)
    /\ pc' = "process"
    /\ UNCHANGED <<env, entry, has_header, df_in, df, date_cols, balance_cols, i,
                   processed_df, detected_date_cols, detected_balance_cols,
                   shown_date_cols, shown_balance_cols, csv_bytes, error, parse_vars>>

\* ---------------------------------------------------------------------
\* process_dataframe, lines 49-102
\* ---------------------------------------------------------------------

\* lines 51-52: the ValueError; the handler's except clause (lines 159-160)
\* turns it into an error message
RaiseColumns ==
    /\ pc = "process"
    /\ ncols(df_in) < 2
    /\ error' = IF entry = "upload"
                THEN "Error processing file: Input must have at least 2 columns so that column A can be removed and others shift left."
                ELSE "ValueError: Input must have at least 2 columns so that column A can be removed and others shift left."
    /\ pc' = "raised"
    /\ UNCHANGED <<env, entry, has_header, df_in, df, date_cols, balance_cols, i,
                   processed_df, detected_date_cols, detected_balance_cols,
                   shown_date_cols, shown_balance_cols, csv_bytes, parse_vars>>

\* lines 53-58: delete column A and normalise the column names to strings
DropColumnA ==
    /\ pc = "process"
    /\ ~(ncols(df_in) < 2)
    /\ df' = stringify_columns(drop_first(df_in))
    /\ pc' = "find_dates"
    /\ UNCHANGED <<env, entry, has_header, df_in, date_cols, balance_cols, i,
                   processed_df, detected_date_cols, detected_balance_cols,
                   shown_date_cols, shown_balance_cols, csv_bytes, error, parse_vars>>

\* lines 61-64
FindDateCols ==
    /\ pc = "find_dates"
    /\ date_cols' = find_date_cols(df.columns)
    /\ i' = 1
    /\ pc' = "format_dates"
    /\ UNCHANGED <<env, entry, has_header, df_in, df, balance_cols,
                   processed_df, detected_date_cols, detected_balance_cols,
                   shown_date_cols, shown_balance_cols, csv_bytes, error, parse_vars>>

\* lines 67-70: one iteration of the loop over date_cols
FormatDateCol ==
    /\ pc = "format_dates"
    /\ i <= Len(date_cols)
    /\ df' = SetColumn(df, date_cols[i], format_date_column(Column(df, date_cols[i]), env))
    /\ i' = i + 1
    /\ UNCHANGED <<env, entry, has_header, df_in, pc, date_cols, balance_cols,
                   processed_df, detected_date_cols, detected_balance_cols,
                   shown_date_cols, shown_balance_cols, csv_bytes, error, parse_vars>>

\* lines 73-76, reached when the loop over date_cols is over
FindBalanceCols ==
    /\ pc = "format_dates"
    /\ i > Len(date_cols)
    /\ balance_cols' = find_balance_cols(df.columns)
    /\ i' = 1
    /\ pc' = "convert_balances"
    /\ UNCHANGED <<env, entry, has_header, df_in, df, date_cols,
                   processed_df, detected_date_cols, detected_balance_cols,
                   shown_date_cols, shown_balance_cols, csv_bytes, error, parse_vars>>

\* lines 78-99: one iteration of the loop over balance_cols
ConvertBalanceCol ==
    /\ pc = "convert_balances"
    /\ i <= Len(balance_cols)
    /\ \E ups \in [1..df.nrows -> BOOLEAN] :
          df' = SetColumn(df, balance_cols[i],
                          convert_balance_column(Column(df, balance_cols[i]), ups))
    /\ i' = i + 1
    /\ UNCHANGED <<env, entry, has_header, df_in, pc, date_cols, balance_cols,
                   processed_df, detected_date_cols, detected_balance_cols,
                   shown_date_cols, shown_balance_cols, csv_bytes, error, parse_vars>>

\* line 102, and the assignment of line 139
Return ==
    /\ pc = "convert_balances"
    /\ i > Len(balance_cols)
    /\ processed_df' = df
    /\ pc' = IF entry = "upload" THEN "report" ELSE "returned"
    /\ UNCHANGED <<env, entry, has_header, df_in, df, date_cols, balance_cols, i,
                   detected_date_cols, detected_balance_cols,
                   shown_date_cols, shown_balance_cols, csv_bytes, error, parse_vars>>

\* ---------------------------------------------------------------------
\* The upload handler, continued
\* ---------------------------------------------------------------------

\* lines 145-148
Report ==
    /\ pc = "report"
    /\ LET dates == SelectSeq(processed_df.columns, is_detected_date_col)
           balances == SelectSeq(processed_df.columns, is_detected_balance_col)
       IN  /\ detected_date_cols' = dates
           /\ detected_balance_cols' = balances
           /\ shown_date_cols' = IF dates # <<>> THEN ShownList(dates)
                                 ELSE ShownText("None detected")
           /\ shown_balance_cols' = IF balances # <<>> THEN ShownList(balances)
                                    ELSE ShownText("None detected (last column used)")
    /\ pc' = "export"
    /\ UNCHANGED <<env, entry, has_header, df_in, df, date_cols, balance_cols, i,
                   processed_df, csv_bytes, error, parse_vars>>

\* lines 151-157
Export ==
    /\ pc = "export"
    /\ csv_bytes' = get_csv_bytes(processed_df)
    /\ pc' = "done"
    /\ UNCHANGED <<env, entry, has_header, df_in, df, date_cols, balance_cols, i,
                   processed_df, detected_date_cols, detected_balance_cols,
                   shown_date_cols, shown_balance_cols, error, parse_vars>>

Next ==
    \/ RejectEmpty
    \/ RejectColumns
    \/ CallProcess
    \/ RaiseColumns
    \/ DropColumnA
    \/ FindDateCols
    \/ FormatDateCol
    \/ FindBalanceCols
    \/ ConvertBalanceCol
    \/ Return
    \/ Report
    \/ Export

Spec == Init /\ [][Next]_vars


\* ---------------------------------------------------------------------
\* One call of parse_date_value, statement by statement
\* ---------------------------------------------------------------------

DayMonthParts ==
    {Pad2(n) : n \in {0, 1, 3, 4, 12, 13, 25, 29, 30, 31, 32}} \cup {<<"3">>, <<"4">>}

YearParts == {<<"2", "0", "2", "5">>, <<"2", "0", "2", "4">>}

YearFirstMonths == {Pad2(n) : n \in {1, 2, 12}} \cup {<<"4">>}

YearFirstDays == {Pad2(n) : n \in {1, 3, 25, 29}} \cup {<<"3">>}

Range(f) == {f[k] : k \in DOMAIN f}

\* the arguments of the calls: a?b?YYYY and YYYY?m?d strings, and the sample
\* cells of the date columns
DateInputs ==
    {StrCell(a \o <<sep>> \o b \o <<sep>> \o y) :
        a \in DayMonthParts, b \in DayMonthParts, y \in YearParts, sep \in {"/", "-", "."}}
    \cup
    {StrCell(y \o <<sep>> \o m \o <<sep>> \o d) :
        y \in YearParts, m \in YearFirstMonths, d \in YearFirstDays, sep \in {"/", "-"}}
    \cup Range(DateCells) \cup Range(DualCells)

InitDate ==
    /\ env \in Envs
    /\ entry = "direct"
    /\ has_header = TRUE
    /\ df_in = SampleFrame(TRUE, 0, 0, 1, 1)
    /\ pc = "idle"
    /\ PipelineIdle
    /\ val \in DateInputs
    /\ s = <<>>
    /\ fmt_i = 0
    /\ ret = NaT
    /\ parse_pc = "call"

\* lines 30-31
ReturnNaT ==
    /\ parse_pc = "call"
    /\ isna(val)
    /\ ret' = NaT
    /\ parse_pc' = "returned"
    /\ UNCHANGED <<pipeline_vars, val, s, fmt_i>>

\* lines 32-34
StripValue ==
    /\ parse_pc = "call"
    /\ ~isna(val)
    /\ s' = Strip(str(val))
    /\ fmt_i' = 1
    /\ parse_pc' = "formats"
    /\ UNCHANGED <<pipeline_vars, val, ret>>

\* lines 35-39: one iteration of the loop over fmts
TryFormat ==
    /\ parse_pc = "formats"
    /\ fmt_i <= Len(fmts)
    /\ IF strptime(s, fmts[fmt_i]) # NaT
       THEN /\ ret' = strptime(s, fmts[fmt_i])
            /\ parse_pc' = "returned"
            /\ UNCHANGED fmt_i
       ELSE /\ fmt_i' = fmt_i + 1
            /\ UNCHANGED <<ret, parse_pc>>
    /\ UNCHANGED <<pipeline_vars, val, s>>

\* lines 40-47: the fallback, reached when the loop ends without a return
Fallback ==
    /\ parse_pc = "formats"
    /\ fmt_i > Len(fmts)
    /\ ret' = to_datetime_dayfirst(s, env)
    /\ parse_pc' = "returned"
    /\ UNCHANGED <<pipeline_vars, val, s, fmt_i>>

NextDate ==
    \/ ReturnNaT
    \/ StripValue
    \/ TryFormat
    \/ Fallback

SpecDate == InitDate /\ [][NextDate]_vars

\* the statement-by-statement call returns what the operator gives
ParseAgrees == parse_pc = "returned" => ret = parse_date_value(val, env)


\* ---------------------------------------------------------------------
\* Properties
\* ---------------------------------------------------------------------

InSeq(x, seq) == \E k \in 1..Len(seq) : seq[k] = x

\* process_dataframe has returned
Finished == pc \in {"returned", "report", "export", "done"}

\* the balance columns are known
BalancesFound == pc = "convert_balances" \/ Finished

\* the date columns are known
DatesFound == pc = "format_dates" \/ BalancesFound

\* a cell of a column the numeric pass has converted
IsAmount(x) == x.t \in {"num", "NA", "inf"}

\* C1: process_dataframe returns a table with one column less, whose column j
\* is input column j+1 under its stringified name, with the same rows in the
\* same order; the shift changes no cell, and a column that is neither a date
\* nor a balance column has exactly the input cells.
C1_ColumnShift ==
    /\ pc = "find_dates" => df.data = Tail(df_in.data)
    /\ Finished =>
          /\ ncols(processed_df) = ncols(df_in) - 1
          /\ processed_df.nrows = df_in.nrows
          /\ Len(processed_df.data) = ncols(df_in) - 1
          /\ \A j \in 1..ncols(processed_df) :
                /\ processed_df.columns[j] = str(df_in.columns[j + 1])
                /\ Len(processed_df.data[j]) = df_in.nrows
                /\ (/\ ~InSeq(processed_df.columns[j], date_cols)
                    /\ ~InSeq(processed_df.columns[j], balance_cols))
                   => processed_df.data[j] = df_in.data[j + 1]

C1_Witness ==
    /\ Finished
    /\ ncols(df_in) = 3
    /\ df_in.nrows = 2
    /\ \E j \in 1..ncols(processed_df) :
          /\ ~InSeq(processed_df.columns[j], date_cols)
          /\ ~InSeq(processed_df.columns[j], balance_cols)
          /\ \A r \in 1..2 : processed_df.data[j][r].t = "str"

PipelineUntouched ==
    /\ df = NoFrame
    /\ processed_df = NoFrame
    /\ date_cols = <<>>
    /\ balance_cols = <<>>
    /\ shown_date_cols = ShownText("")
    /\ shown_balance_cols = ShownText("")
    /\ csv_bytes = <<>>

\* C2: an upload with zero rows or fewer than 2 columns is rejected with an
\* error before any stage runs (no column dropped, no cell rewritten, no CSV,
\* no report); the column count is tested by the caller before it calls
\* process_dataframe and by process_dataframe before it removes column A.
C2_FailFast ==
    /\ (entry = "upload" /\ (df_in.nrows = 0 \/ ncols(df_in) < 2)) =>
          /\ pc \in {"uploaded", "rejected"}
          /\ PipelineUntouched
          /\ pc = "rejected" => error # ""
    /\ (entry = "upload" /\ pc = "process") => ncols(df_in) >= 2
    /\ ncols(df_in) < 2 =>
          /\ PipelineUntouched
          /\ pc \in {"uploaded", "rejected", "process", "raised"}
          /\ pc = "raised" => error # ""

C2_Witness ==
    /\ entry = "upload"
    /\ pc = "rejected"
    /\ ncols(df_in) = 1
    /\ df_in.nrows > 0
    /\ error # ""

\* the keywords of a balance column, as the claims about the fallback read
\* them
C5_Keywords ==
    {<<"b", "a", "l", "a", "n", "c", "e">>, <<"a", "m", "o", "u", "n", "t">>,
     <<"v", "a", "l", "u", "e">>, <<"a", "m", "t">>, <<"d", "e", "b", "i", "t">>,
     <<"c", "r", "e", "d", "i", "t">>, <<"t", "o", "t", "a", "l">>}

C5_NoKeyword ==
    \A j \in 2..ncols(df_in) : \A k \in C5_Keywords :
        ~Contains(k, Lower(str(df_in.columns[j])))

\* C5: when no header of the shifted table holds a monetary keyword, the
\* balance columns are exactly the last column; every run that passes the
\* structural validation converts at least one column; without a header row
\* there is no date column and the last column is the only balance column.
C5_LastColumnFallback ==
    BalancesFound =>
        /\ C5_NoKeyword => balance_cols = <<str(df_in.columns[ncols(df_in)])>>
        /\ Len(balance_cols) >= 1
        /\ ~has_header =>
              /\ date_cols = <<>>
              /\ balance_cols = <<IntToStr(ncols(df_in) - 1)>>
        /\ Finished =>
              \E j \in 1..ncols(processed_df) :
                  /\ InSeq(processed_df.columns[j], balance_cols)
                  /\ \A r \in 1..processed_df.nrows : IsAmount(processed_df.data[j][r])

C5_Witness ==
    /\ Finished
    /\ ~has_header
    /\ ncols(df_in) = 3
    /\ df_in.nrows = 2
    /\ balance_cols = <<<<"2">>>>
    /\ \E r \in 1..2 : processed_df.data[2][r].t = "num"


C3_Matches(keywords, c) == \E k \in keywords : Contains(k, Lower(c))

\* the eight keywords of the claim
C3_KeywordsWithOpen ==
    {<<"b", "a", "l", "a", "n", "c", "e">>, <<"a", "m", "o", "u", "n", "t">>,
     <<"v", "a", "l", "u", "e">>, <<"a", "m", "t">>, <<"d", "e", "b", "i", "t">>,
     <<"c", "r", "e", "d", "i", "t">>, <<"t", "o", "t", "a", "l">>,
     <<"o", "p", "e", "n">>}

\* the same without "open"
C3_Keywords ==
    {<<"b", "a", "l", "a", "n", "c", "e">>, <<"a", "m", "o", "u", "n", "t">>,
     <<"v", "a", "l", "u", "e">>, <<"a", "m", "t">>, <<"d", "e", "b", "i", "t">>,
     <<"c", "r", "e", "d", "i", "t">>, <<"t", "o", "t", "a", "l">>}

C3_Monetary(keywords) ==
    BalancesFound =>
        ((\E j \in 1..ncols(df) : C3_Matches(keywords, df.columns[j])) =>
            /\ balance_cols = SelectSeq(df.columns, LAMBDA c : C3_Matches(keywords, c))
            /\ \A j \in 1..ncols(df) :
                  InSeq(df.columns[j], balance_cols) <=> C3_Matches(keywords, df.columns[j]))

\* C3 as stated: after the shift a column is Monetary if and only if its
\* lower-cased header holds one of balance, amount, value, amt, debit,
\* credit, total, open (whenever at least one column matches).
C3_MonetaryWithOpen == C3_Monetary(C3_KeywordsWithOpen)

\* C3 amended: after the shift a column is Monetary if and only if its
\* lower-cased header holds one of balance, amount, value, amt, debit,
\* credit, total (whenever at least one column matches); "open" is not a
\* keyword.
C3_MonetaryKeywords == C3_Monetary(C3_Keywords)

C3_Witness ==
    /\ BalancesFound
    /\ ncols(df) = 2
    /\ df.columns[1] = <<"O", "p", "e", "n", " ", "I", "t", "e", "m", "s">>
    /\ balance_cols = <<df.columns[2]>>
    /\ C3_Matches(C3_Keywords, df.columns[2])

C4_FallbackPhrases ==
    {<<"d", "o", "c", "u", "m", "e", "n", "t", "d", "a", "t", "e">>,
     <<"d", "o", "c", "d", "a", "t", "e">>,
     <<"i", "n", "v", "o", "i", "c", "e", " ", "d", "a", "t", "e">>,
     <<"i", "n", "v", "o", "i", "c", "e", "_", "d", "a", "t", "e">>,
     <<"d", "o", "c", "u", "m", "e", "n", "t", " ", "d", "a", "t", "e">>}

C4_IsDate(c) == Contains(<<"d", "a", "t", "e">>, Lower(c))

C4_FallbackMatch(c) ==
    \E ph \in C4_FallbackPhrases : Contains(ph, Remove(Lower(c), " "))

\* C4: a column is Date if its lower-cased header holds "date"; when no
\* column does, a column is Date if its header, lower-cased and with the
\* spaces removed, holds one of the fallback phrases ("Doc Da te" gives
\* "docdate"); the Date set is empty only when the fallback matches nothing.
C4_DateFallback ==
    DatesFound =>
        date_cols = IF \E j \in 1..ncols(df) : C4_IsDate(df.columns[j])
                    THEN SelectSeq(df.columns, C4_IsDate)
                    ELSE SelectSeq(df.columns, C4_FallbackMatch)

C6_KeywordColumn ==
    \E j \in 1..ncols(processed_df) : C3_Matches(C3_Keywords, processed_df.columns[j])

\* C6 as stated: after a run the Date list and the Monetary list shown to the
\* caller are exactly the columns the run date-formatted and converted; when
\* the last-column fallback chose the Monetary column, the list names it.
C6_ReportNamesFallback ==
    pc = "done" =>
        /\ shown_date_cols.cols = date_cols
        /\ shown_balance_cols.cols = balance_cols

\* C6 amended: after a run the Date list shown to the caller is exactly the
\* columns the run date-formatted, and when some header holds a monetary
\* keyword the Monetary list shown is exactly the columns the run converted;
\* when the last-column fallback chose the Monetary column, the list is empty
\* and the text "None detected (last column used)" is shown in its place,
\* which does not name the column.
C6_Report ==
    pc = "done" =>
        /\ detected_date_cols = date_cols
        /\ shown_date_cols = IF date_cols # <<>> THEN ShownList(date_cols)
                             ELSE ShownText("None detected")
        /\ IF C6_KeywordColumn
           THEN /\ detected_balance_cols = balance_cols
                /\ shown_balance_cols = ShownList(balance_cols)
           ELSE /\ detected_balance_cols = <<>>
                /\ shown_balance_cols = ShownText("None detected (last column used)")
                /\ balance_cols = <<processed_df.columns[ncols(processed_df)]>>
        /\ \A j \in 1..ncols(processed_df) : \A r \in 1..processed_df.nrows :
              /\ InSeq(processed_df.columns[j], balance_cols)
                    <=> IsAmount(processed_df.data[j][r])
              /\ (/\ InSeq(processed_df.columns[j], date_cols)
                  /\ ~InSeq(processed_df.columns[j], balance_cols))
                    => processed_df.data[j][r] =
                          strftime_or_empty(parse_date_value(df_in.data[j + 1][r], env))

C6_Witness ==
    /\ pc = "done"
    /\ ~C6_KeywordColumn
    /\ ncols(processed_df) = 2
    /\ df_in.nrows = 2
    /\ shown_balance_cols.text = "None detected (last column used)"
    /\ balance_cols = <<processed_df.columns[2]>>
    /\ date_cols # <<>>

C7_Digits(f, lens) == Len(f) \in lens /\ IsDigits(f)

\* the fields of a string a/b/YYYY, <<>> for any other string
C7_SlashFields(x) ==
    IF x.t # "str" THEN <<>>
    ELSE LET f == Split(Strip(x.s), "/")
         IN  IF /\ Len(f) = 3
                /\ C7_Digits(f[1], {1, 2}) /\ C7_Digits(f[2], {1, 2})
                /\ C7_Digits(f[3], {4})
             THEN <<DigitsVal(f[1]), DigitsVal(f[2]), DigitsVal(f[3])>>
             ELSE <<>>

\* C7: parse_date_value tries DD/MM/YYYY, DD-MM-YYYY, YYYY-MM-DD, MM/DD/YYYY,
\* YYYY/MM/DD, DD.MM.YYYY in this order on the trimmed string and returns the
\* date of the first that matches: a/b/YYYY is read day-first when that is a
\* calendar date (03/04/2025 is 3 April), month-first only when it is not
\* (12/25/2025 is 25 December), and the permissive parse is reached only when
\* all six formats fail.
C7_StrictOrder ==
    /\ parse_pc = "formats" =>
          \A k \in 1..Len(fmts) : k < fmt_i => strptime(s, fmts[k]) = NaT
    /\ (parse_pc = "returned" /\ ~isna(val)) =>
          /\ s = Strip(str(val))
          /\ fmt_i <= Len(fmts) =>
                /\ ret # NaT
                /\ \A k \in 1..(fmt_i - 1) : strptime(s, fmts[k]) = NaT
          /\ fmt_i > Len(fmts) =>
                \A k \in 1..Len(fmts) : strptime(s, fmts[k]) = NaT
          /\ C7_SlashFields(val) # <<>> =>
                LET a == C7_SlashFields(val)[1]
                    b == C7_SlashFields(val)[2]
                    y == C7_SlashFields(val)[3]
                IN  IF ValidDate(y, b, a) THEN ret = Date(y, b, a) /\ fmt_i = 1
                    ELSE IF ValidDate(y, a, b) THEN ret = Date(y, a, b) /\ fmt_i = 4
                    ELSE fmt_i = 7
          /\ val = StrCell(<<"0", "3", "/", "0", "4", "/", "2", "0", "2", "5">>)
                => ret = Date(2025, 4, 3)
          /\ val = StrCell(<<"1", "2", "/", "2", "5", "/", "2", "0", "2", "5">>)
                => ret = Date(2025, 12, 25)

C7_Witness ==
    /\ parse_pc = "returned"
    /\ val = StrCell(<<"0", "3", "/", "0", "4", "/", "2", "0", "2", "5">>)
    /\ fmt_i = 1
    /\ ret = Date(2025, 4, 3)


\* the string without its commas and spaces
C8_Clean(x) == Remove(Remove(str(x), ","), " ")

C8_Wrapped(c) == c # <<>> /\ c[1] = "(" /\ c[Len(c)] = ")"

\* a numeric string without a sign
C8_Unsigned(n) == n # <<>> /\ n[1] \notin {"+", "-"} /\ float(n) # NA

\* the value of a numeric string, negated when minus holds, as a cell of
\* the converted column
C8_Value(n, minus) ==
    LET v == float(n)
    IN  IF v = PyNaN THEN {NA}
        ELSE IF v.t = "pyinf" THEN {Inf(v.neg # minus)}
        ELSE {Num(v.neg # minus, h) : h \in RoundOutcomes(v)}

\* the results of the numeric parser the claim allows for a cell
C8_Allowed(x) ==
    IF isna(x) \/ \A k \in 1..Len(str(x)) : str(x)[k] \in Whitespace THEN {NA}
    ELSE LET c == C8_Clean(x)
             n == SubSeq(c, 2, Len(c) - 1)
         IN  IF C8_Wrapped(c)
             THEN (IF C8_Unsigned(n) THEN C8_Value(n, TRUE) ELSE {NA})
             ELSE IF float(c) # NA THEN C8_Value(c, FALSE)
             ELSE {NA}

\* text with exactly two fractional digits
C8_TwoDecimals(txt) ==
    /\ Len(txt) >= 4
    /\ txt[Len(txt) - 2] = "."
    /\ IsDigit(txt[Len(txt) - 1]) /\ IsDigit(txt[Len(txt)])
    /\ \A k \in 1..(Len(txt) - 3) : IsDigit(txt[k]) \/ (k = 1 /\ txt[k] = "-")

\* C8 as stated: in a Monetary column a null, empty or whitespace-only cell gives null,
\* written as an empty cell and never "0.00"; otherwise, commas and spaces
\* removed, "(n)" is the negative of n ("(123.45)" gives -123.45), any other
\* numeric string its value ("1,234.50" gives 1234.5), anything else null;
\* a result that is not null is rounded to 2 decimals and written with
\* exactly 2 fractional digits.
C8_NumericParser ==
    Finished =>
        \A j \in 1..ncols(processed_df) :
            (/\ InSeq(processed_df.columns[j], balance_cols)
             /\ ~InSeq(processed_df.columns[j], date_cols)) =>
                \A r \in 1..processed_df.nrows :
                    LET x == df_in.data[j + 1][r]
                        y == processed_df.data[j][r]
                    IN  /\ y \in C8_Allowed(x)
                        /\ y = NA => CsvText(y) = <<>>
                        /\ y # NA => C8_TwoDecimals(CsvText(y))
                        /\ x = StrCell(<<"(", "1", "2", "3", ".", "4", "5", ")">>)
                              => y = Num(TRUE, 12345)
                        /\ x = StrCell(<<"1", ",", "2", "3", "4", ".", "5", "0">>)
                              => /\ y = Num(FALSE, 123450)
                                 /\ CsvText(y) = <<"1", "2", "3", "4", ".", "5", "0">>
                        /\ (pc = "done" /\ ncols(processed_df) = 1) =>
                              csv_bytes[r + 1] = IF y = NA THEN <<"\"", "\"">>
                                                 ELSE CsvText(y)

C9_Valid == df_in.nrows >= 1 /\ ncols(df_in) >= 2

\* the run can take its next step
C9_CanStep ==
    \/ pc \in {"uploaded", "process"} /\ ~empty(df_in) /\ ncols(df_in) >= 2
    \/ pc \in {"find_dates", "report", "export"}
    \/ /\ pc = "format_dates"
       /\ i \in 1..(Len(date_cols) + 1)
       /\ \A k \in 1..Len(date_cols) : InSeq(date_cols[k], df.columns)
    \/ /\ pc = "convert_balances"
       /\ i \in 1..(Len(balance_cols) + 1)
       /\ \A k \in 1..Len(balance_cols) : InSeq(balance_cols[k], df.columns)

\* C9: an input with at least 1 row and 2 columns never stops on an error
\* before the end of the run and gives as many rows, whatever the cells hold;
\* a cell that does not parse as a date or as a number becomes an empty
\* output cell, and every cell of a column is converted from its own input
\* cell alone.
C9_FailSoft ==
    /\ C9_Valid =>
          /\ pc \notin {"rejected", "raised"}
          /\ error = ""
          /\ pc \notin {"done", "returned"} => C9_CanStep
    /\ Finished =>
          /\ processed_df.nrows = df_in.nrows
          /\ \A j \in 1..ncols(processed_df) : \A r \in 1..processed_df.nrows :
                LET x == df_in.data[j + 1][r]
                    y == processed_df.data[j][r]
                    isDate == InSeq(processed_df.columns[j], date_cols)
                    isBalance == InSeq(processed_df.columns[j], balance_cols)
                IN  /\ (isDate /\ ~isBalance) =>
                          /\ y = strftime_or_empty(parse_date_value(x, env))
                          /\ parse_date_value(x, env) = NaT => CsvText(y) = <<>>
                    /\ (isBalance /\ ~isDate) =>
                          /\ \E up \in BOOLEAN : y = round2(to_numeric(x), up)
                          /\ to_numeric(x) \in {NA, PyNaN} => CsvText(y) = <<>>
                    /\ (isBalance /\ isDate) => CsvText(y) = <<>>

C9_Witness ==
    /\ pc = "done"
    /\ df_in.nrows = 2
    /\ \E j \in 1..ncols(processed_df) :
          /\ InSeq(processed_df.columns[j], date_cols)
          /\ ~InSeq(processed_df.columns[j], balance_cols)
          /\ df_in.data[j + 1][2] =
                StrCell(<<"n", "o", "t", "-", "a", "-", "d", "a", "t", "e">>)
          /\ processed_df.data[j] =
                <<StrCell(<<"1", "6", "/", "0", "9", "/", "2", "0", "2", "5">>),
                  StrCell(<<>>)>>

\* the header holds "date" and a monetary keyword
C10_Dual(c) == C4_IsDate(c) /\ C3_Matches(C3_Keywords, c)

Pos(c, seq) == CHOOSE k \in 1..Len(seq) : seq[k] = c

\* "" or DD/MM/YYYY
C10_Formatted(x) ==
    /\ x.t = "str"
    /\ \/ x.s = <<>>
       \/ /\ Len(x.s) = 10
          /\ x.s[3] = "/" /\ x.s[6] = "/"
          /\ \A k \in {1, 2, 4, 5, 7, 8, 9, 10} : IsDigit(x.s[k])

\* C10 as stated: a column whose header matches the Date test and a monetary keyword
\* gets both passes in a fixed order: the date pass first, over the raw
\* cells, leaves DD/MM/YYYY strings or empty strings; the numeric pass then
\* runs over that output, not over the raw cells; the final content is the
\* numeric parse of the formatted date strings.
C10_DualRole ==
    DatesFound =>
        \A j \in 1..ncols(df) :
            C10_Dual(df.columns[j]) =>
                LET c == df.columns[j]
                    raw == df_in.data[j + 1]
                    dated == [r \in 1..df.nrows |->
                                 strftime_or_empty(parse_date_value(raw[r], env))]
                IN  /\ InSeq(c, date_cols)
                    /\ BalancesFound => InSeq(c, balance_cols)
                    /\ (pc = "format_dates" /\ Pos(c, date_cols) >= i) =>
                          df.data[j] = raw
                    /\ (\/ pc = "format_dates" /\ Pos(c, date_cols) < i
                        \/ pc = "convert_balances" /\ Pos(c, balance_cols) >= i) =>
                          /\ df.data[j] = dated
                          /\ \A r \in 1..df.nrows : C10_Formatted(df.data[j][r])
                    /\ (\/ pc = "convert_balances" /\ Pos(c, balance_cols) < i
                        \/ Finished) =>
                          \A r \in 1..df.nrows :
                              \E up \in BOOLEAN :
                                  df.data[j][r] = round2(to_numeric(dated[r]), up)
                    /\ Finished => processed_df.data[j] = df.data[j]

====
